---- MODULE Spec2Model ----
(***************************************************************************)
(* tsvc_runner: the paired benchmark pipeline (two runner processes, each  *)
(* forwarding the parsed output lines of one benchmark program through a   *)
(* queue), the reporting loop of the main program, and the vectorization   *)
(* verdict map it consults.  Modelled from src/tsvc_runner/__main__.py.    *)
(*                                                                         *)
(* An output line is the sequence of its pieces: words and the whitespace  *)
(* between them, ending with the newline the stream iterator keeps.        *)
(***************************************************************************)
EXTENDS Integers, Sequences, FiniteSets, TLC

\* ------------------------------------------------------------------ bounds

\* Longest output stream (in lines) of a benchmark program.
MaxLines == 2

\* Longest optimization record (in entries) and symbol table (in symbols).
MaxEntries == 2

\* ------------------------------------------------------------- input data

Runners == {"novec", "vec"}

Whitespace == {" ", "\n"}

LineA       == <<"f", " ", "1", " ", "x", "\n">>
LineB       == <<"g", " ", "2", " ", "y", "\n">>
LineZero    == <<"f", " ", "0", " ", "y", "\n">>
LineHeader  == <<"Loop", " ", "Time", "\n">>
LineEmpty   == <<"\n">>
LineShort   == <<"f", " ", "1", "\n">>
LineLong    == <<"f", " ", "1", " ", "x", " ", "y", "\n">>
LineNotNum  == <<"f", " ", "x", " ", "x", "\n">>
LineD4      == <<"f", " ", "4", " ", "x", "\n">>
LineD8      == <<"f", " ", "8", " ", "x", "\n">>

\* Lines of the streams of the pipeline specification.
PipelineLines == {LineA, LineB, LineZero, LineHeader, LineShort}

\* Every shape of line from_output_line distinguishes.
AllLines == PipelineLines \cup {LineEmpty, LineLong, LineNotNum}

\* Streams of at most n lines drawn from L.
Streams(L, n) == UNION {[1..k -> L] : k \in 0..n}

\* The terminal marker run_benchmark puts last (None).
NoneVal == [none |-> TRUE]

\* A local of the main program that has not been assigned yet.
Unbound == [unbound |-> TRUE]

\* The report file before it is opened.
NoFile == [exists |-> FALSE, rows |-> <<>>]

\* Inputs of the verdict-map construction: either the optimization record
\* (parsed.vector_binary is None) or the vector binary.
Entry(fn, pass, name) == [Function |-> fn, Pass |-> pass, Name |-> name]

RecordInput(ok, entries) == [mode |-> "record", yaml_ok |-> ok, entries |-> entries]

BinaryInput(arch, symtab, symbols) ==
    [mode |-> "binary", arch |-> arch, has_symtab |-> symtab, symbols |-> symbols]

Symbol(name, objdump) == [name |-> name, objdump |-> objdump]

PipelineOracleInputs ==
    { RecordInput(TRUE, <<Entry("f", "loop-vectorize", "Vectorized")>>),
      BinaryInput("x86", TRUE, <<>>) }

\* Entries of the optimization record: a success, a miss and an analysis
\* remark of the vectorization passes, a remark of another pass, and entries
\* that lack the Function or the Pass key.
LogEntries ==
    { Entry("f", "loop-vectorize", "Vectorized"),
      Entry("f", "loop-vectorize", "MissedDetails"),
      Entry("g", "slp-vectorize", "Vectorized"),
      Entry("f", "licm", "Vectorized"),
      [Pass |-> "loop-vectorize", Name |-> "Vectorized"],
      [Function |-> "g", Pass |-> "loop-vectorize"],
      [Function |-> "f", Name |-> "Vectorized"] }

\* Symbols of the vector binary with what objdump does for each: prints a
\* vsetvli, prints scalar code only, or exits with an error.
SymbolTable ==
    { Symbol("f", "vsetvli"), Symbol("f", "scalar"), Symbol("f", "fail"),
      Symbol("g", "vsetvli"), Symbol("g", "fail"), Symbol("", "fail") }

OracleInputs ==
    { RecordInput(TRUE, es) : es \in Streams(LogEntries, MaxEntries) }
    \cup { RecordInput(FALSE, <<>>) }
    \cup { BinaryInput(a, s, syms) :
              a \in {"RISC-V", "x86"}, s \in BOOLEAN,
              syms \in Streams(SymbolTable, MaxEntries) }

VARIABLES
    output,                \* runner -> the lines its benchmark program prints
    launch_ok,             \* runner -> whether subprocess.Popen succeeds
    oracle_in,             \* input of the verdict-map construction
    runner_pc,             \* runner -> "notstarted", "started", "reading", "done", "crashed"
    line_no,               \* runner -> number of lines read from proc.stdout
    queue,                 \* runner -> items put and not yet received
    sent,                  \* runner -> every item ever put (history)
    runner_error,          \* runner -> the exception that ended it, or "none"
    child,                 \* runner -> its benchmark program: "notstarted", "running",
                           \*           "exited" (not waited for), "reaped"
    main_pc,               \* position of the main program
    novec_result,          \* local of run_benchmarks
    vec_result,            \* local of run_benchmarks
    received,              \* runner -> number of items the pairing loop has got
    yielded,               \* pairs yielded by run_benchmarks so far
    vectorization_status,  \* the verdict map (a defaultdict: its keys are its DOMAIN)
    report_items,          \* rows appended by the reporting loop
    console,               \* what the reporting loop printed, one entry per pair
    report_file,           \* the report artifact
    error                  \* the exception that aborted the main program, or "none"

vars == <<output, launch_ok, oracle_in, runner_pc, line_no, queue, sent,
          runner_error, child, main_pc, novec_result, vec_result, received, yielded,
          vectorization_status, report_items, console, report_file, error>>

inputVars == <<output, launch_ok, oracle_in>>
runnerVars == <<runner_pc, line_no, queue, sent, runner_error, child>>
reportVars == <<vectorization_status, report_items, console, report_file>>

\* ---------------------------------------------------------- the verdict map

\* Mutant: the default of the map is True.
Lookup_Mut(status, key) == IF key \in DOMAIN status THEN status[key] ELSE TRUE

\* defaultdict(lambda: False).__getitem__: the value read ...
Lookup(status, key) == IF key \in DOMAIN status THEN status[key] ELSE FALSE

\* ... and the map afterwards: a missing key is inserted with the default.
Touch(status, key) ==
    IF key \in DOMAIN status THEN status ELSE status @@ (key :> FALSE)

\* entry.get(key) in values / entry.get(key) == value: None, the result for an
\* absent key, is none of the values compared with.
GetIn(entry, key, values) == key \in DOMAIN entry /\ entry[key] \in values

VectorizationPasses == {"loop-vectorize", "slp-vectorize"}

\* Mutant: the verdict is assigned, not or-ed (the last entry wins).
RecordStep_Mut(status, entry) ==
    IF "Function" \notin DOMAIN entry THEN status
    ELSE IF ~GetIn(entry, "Pass", VectorizationPasses) THEN status
    ELSE LET function_name == entry["Function"]
             new == GetIn(entry, "Name", {"Vectorized"})
         IN  [k \in DOMAIN status \cup {function_name} |->
                 IF k = function_name THEN new ELSE status[k]]

\* One iteration of the loop of vectorization_status_from_record.
RecordStep(status, entry) ==
    IF "Function" \notin DOMAIN entry THEN status
    ELSE IF ~GetIn(entry, "Pass", VectorizationPasses) THEN status
    ELSE LET function_name == entry["Function"]
             old == Lookup(status, function_name)
             new == old \/ GetIn(entry, "Name", {"Vectorized"})
         IN  [k \in DOMAIN status \cup {function_name} |->
                 IF k = function_name THEN new ELSE status[k]]

RECURSIVE RecordFold(_, _)
RecordFold(status, entries) ==
    IF entries = <<>> THEN status
    ELSE RecordFold(RecordStep(status, Head(entries)), Tail(entries))

EmptyStatus == [k \in {} |-> FALSE]

vectorization_status_from_record(parsed_record) ==
    RecordFold(EmptyStatus, parsed_record)

\* Mutant: a failing objdump invocation ends the scan, and the verdicts
\* gathered so far are returned (as catching CalledProcessError would do).
RECURSIVE SymbolFold_Mut(_, _)
SymbolFold_Mut(status, symbols) ==
    IF symbols = <<>> THEN [ok |-> TRUE, status |-> status]
    ELSE LET symbol == Head(symbols) IN
         IF symbol.name = "" THEN SymbolFold_Mut(status, Tail(symbols))
         ELSE IF symbol.objdump = "fail"
              THEN [ok |-> TRUE, status |-> status]
         ELSE SymbolFold_Mut(
                [k \in DOMAIN status \cup {symbol.name} |->
                    IF k = symbol.name THEN symbol.objdump = "vsetvli"
                    ELSE status[k]],
                Tail(symbols))

\* The loop of vectorization_status_from_binary over the symbol table: the
\* map, or the exception of the first objdump invocation that fails.
RECURSIVE SymbolFold(_, _)
SymbolFold(status, symbols) ==
    IF symbols = <<>> THEN [ok |-> TRUE, status |-> status]
    ELSE LET symbol == Head(symbols) IN
         IF symbol.name = "" THEN SymbolFold(status, Tail(symbols))
         ELSE IF symbol.objdump = "fail"
              THEN [ok |-> FALSE, exc |-> "CalledProcessError"]
         ELSE SymbolFold(
                [k \in DOMAIN status \cup {symbol.name} |->
                    IF k = symbol.name THEN symbol.objdump = "vsetvli"
                    ELSE status[k]],
                Tail(symbols))

vectorization_status_from_binary(binary) ==
    IF binary.arch # "RISC-V" THEN [ok |-> FALSE, exc |-> "ValueError"]
    ELSE IF ~binary.has_symtab THEN [ok |-> FALSE, exc |-> "AssertionError"]
    ELSE SymbolFold(EmptyStatus, binary.symbols)

\* Lines 197-205 of the main program: which construction runs, and its result.
BuildStatus(in) ==
    IF in.mode = "record"
    THEN IF in.yaml_ok
         THEN [ok |-> TRUE, status |-> vectorization_status_from_record(in.entries)]
         ELSE [ok |-> FALSE, exc |-> "YAMLError"]
    ELSE vectorization_status_from_binary(in)

\* ------------------------------------------------------- Benchmark Runner

\* float(word) for the words that are numbers; any other word raises.
FloatOf == ("0" :> 0) @@ ("1" :> 1) @@ ("2" :> 2) @@ ("4" :> 4) @@ ("8" :> 8)

IsWord(piece) == piece \notin Whitespace

\* line.decode().strip().split(): the words of the line.
Split(line) == SelectSeq(line, IsWord)

\* line.startswith(b"Loop"), on the raw line.
StartsWithLoop(line) == line # <<>> /\ line[1] = "Loop"

\* BenchmarkOutput.from_output_line: the record, or the exception raised while
\* the constructor's arguments are evaluated left to right.
from_output_line(line) ==
    LET line_split == Split(line) IN
    IF Len(line_split) < 2 THEN [ok |-> FALSE, exc |-> "IndexError"]
    ELSE IF line_split[2] \notin DOMAIN FloatOf THEN [ok |-> FALSE, exc |-> "ValueError"]
    ELSE IF Len(line_split) < 3 THEN [ok |-> FALSE, exc |-> "IndexError"]
    ELSE [ok |-> TRUE,
          rec |-> [function_name |-> line_split[1],
                   duration |-> FloatOf[line_split[2]],
                   checksum |-> line_split[3]]]

\* output_queue.put(item) on a FIFO queue.
Put(q, item) == Append(q, item)

\* subprocess.Popen at the start of run_benchmark.
Launch(r) ==
    /\ runner_pc[r] = "started"
    /\ IF launch_ok[r]
       THEN /\ runner_pc' = [runner_pc EXCEPT ![r] = "reading"]
            /\ child' = [child EXCEPT ![r] = "running"]
            /\ UNCHANGED runner_error
       ELSE /\ runner_pc' = [runner_pc EXCEPT ![r] = "crashed"]
            /\ runner_error' = [runner_error EXCEPT ![r] = "OSError"]
            /\ UNCHANGED child
    /\ UNCHANGED <<inputVars, line_no, queue, sent, main_pc, novec_result,
                   vec_result, received, yielded, reportVars, error>>

\* One iteration of "for line in proc.stdout".
ReadLine(r) ==
    /\ runner_pc[r] = "reading"
    /\ line_no[r] < Len(output[r])
    /\ LET line == output[r][line_no[r] + 1]
           parsed == from_output_line(line)
       IN  /\ line_no' = [line_no EXCEPT ![r] = @ + 1]
           /\ IF StartsWithLoop(line)
              THEN UNCHANGED <<runner_pc, queue, sent, runner_error>>
              ELSE IF parsed.ok
              THEN /\ queue' = [queue EXCEPT ![r] = Put(@, parsed.rec)]
                   /\ sent' = [sent EXCEPT ![r] = Append(@, parsed.rec)]
                   /\ UNCHANGED <<runner_pc, runner_error>>
              ELSE /\ runner_pc' = [runner_pc EXCEPT ![r] = "crashed"]
                   /\ runner_error' = [runner_error EXCEPT ![r] = parsed.exc]
                   /\ UNCHANGED <<queue, sent>>
    /\ UNCHANGED <<inputVars, child, main_pc, novec_result, vec_result, received,
                   yielded, reportVars, error>>

\* Mutant: the process exits at the end of the stream without the marker.
PutMarker_Mut(r) ==
    /\ runner_pc[r] = "reading"
    /\ line_no[r] = Len(output[r])
    /\ runner_pc' = [runner_pc EXCEPT ![r] = "done"]
    /\ child' = [child EXCEPT ![r] = "exited"]
    /\ UNCHANGED <<inputVars, line_no, queue, sent, runner_error, main_pc,
                   novec_result, vec_result, received, yielded, reportVars, error>>

\* The stream has ended, which the benchmark program brings about by
\* terminating: output_queue.put(None), and the runner process exits. Nothing
\* in run_benchmark waits for proc.
PutMarker(r) ==
    /\ runner_pc[r] = "reading"
    /\ line_no[r] = Len(output[r])
    /\ queue' = [queue EXCEPT ![r] = Put(@, NoneVal)]
    /\ sent' = [sent EXCEPT ![r] = Append(@, NoneVal)]
    /\ runner_pc' = [runner_pc EXCEPT ![r] = "done"]
    /\ child' = [child EXCEPT ![r] = "exited"]
    /\ UNCHANGED <<inputVars, line_no, runner_error, main_pc, novec_result,
                   vec_result, received, yielded, reportVars, error>>

\* ------------------------------------------------- Paired Benchmark Pipeline

Exited(r) == runner_pc[r] \in {"done", "crashed"}

\* A benchmark program whose runner process is gone is an orphan: the
\* operating system reaps it once it has terminated (a program whose runner
\* died on an exception may terminate at any later time).
OrphanReaped(r) ==
    /\ Exited(r)
    /\ child[r] \in {"running", "exited"}
    /\ child' = [child EXCEPT ![r] = "reaped"]
    /\ UNCHANGED <<inputVars, runner_pc, line_no, queue, sent, runner_error,
                   main_pc, novec_result, vec_result, received, yielded,
                   reportVars, error>>

\* Mutant: a failure of the construction is swallowed and the run goes on
\* with an empty map.
BuildVerdict_Mut ==
    /\ main_pc = "oracle"
    /\ LET built == BuildStatus(oracle_in) IN
       vectorization_status' = IF built.ok THEN built.status ELSE EmptyStatus
    /\ main_pc' = "start"
    /\ UNCHANGED <<inputVars, runnerVars, novec_result, vec_result, received,
                   yielded, report_items, console, report_file, error>>

\* Lines 197-206: the verdict map is built before anything else.
BuildVerdict ==
    /\ main_pc = "oracle"
    /\ LET built == BuildStatus(oracle_in) IN
       IF built.ok
       THEN /\ vectorization_status' = built.status
            /\ main_pc' = "start"
            /\ UNCHANGED error
       ELSE /\ main_pc' = "aborted"
            /\ error' = built.exc
            /\ UNCHANGED vectorization_status
    /\ UNCHANGED <<inputVars, runnerVars, novec_result, vec_result, received,
                   yielded, report_items, console, report_file>>

\* The first next() on the generator: both queues exist and both processes
\* are started (lines 125-132).
StartRunners ==
    /\ main_pc = "start"
    /\ runner_pc' = [r \in Runners |-> "started"]
    /\ main_pc' = "get_novec"
    /\ UNCHANGED <<inputVars, line_no, queue, sent, runner_error, child,
                   novec_result, vec_result, received, yielded, reportVars, error>>

\* Mutant: the loop may receive from the scalar queue again before it
\* receives from the vector queue (the consumer runs ahead on one side).
GetNovec_Mut ==
    /\ main_pc = "get_novec"
    /\ queue["novec"] # <<>>
    /\ novec_result' = Head(queue["novec"])
    /\ queue' = [queue EXCEPT !["novec"] = Tail(@)]
    /\ received' = [received EXCEPT !["novec"] = @ + 1]
    /\ main_pc' \in {"get_novec", "get_vec"}
    /\ UNCHANGED <<inputVars, runner_pc, line_no, sent, runner_error, child,
                   vec_result, yielded, reportVars, error>>

\* novec_result = novec_queue.get(): blocks while the queue is empty.
GetNovec ==
    /\ main_pc = "get_novec"
    /\ queue["novec"] # <<>>
    /\ novec_result' = Head(queue["novec"])
    /\ queue' = [queue EXCEPT !["novec"] = Tail(@)]
    /\ received' = [received EXCEPT !["novec"] = @ + 1]
    /\ main_pc' = "get_vec"
    /\ UNCHANGED <<inputVars, runner_pc, line_no, sent, runner_error, child,
                   vec_result, yielded, reportVars, error>>

\* vec_result = vec_queue.get(): blocks while the queue is empty.
GetVec ==
    /\ main_pc = "get_vec"
    /\ queue["vec"] # <<>>
    /\ vec_result' = Head(queue["vec"])
    /\ queue' = [queue EXCEPT !["vec"] = Tail(@)]
    /\ received' = [received EXCEPT !["vec"] = @ + 1]
    /\ main_pc' = "test"
    /\ UNCHANGED <<inputVars, runner_pc, line_no, sent, runner_error, child,
                   novec_result, yielded, reportVars, error>>

\* "if novec_result is None: break", else "yield (novec_result, vec_result)".
IsEnd(item) == item = NoneVal

\* Mutant: a scalar marker that arrives together with a vector record is an
\* error (a strict pairing of the two streams).
YieldOrBreak_Mut ==
    /\ main_pc = "test"
    /\ IF IsEnd(novec_result)
       THEN /\ IF IsEnd(vec_result)
               THEN main_pc' = "join_novec" /\ UNCHANGED error
               ELSE main_pc' = "aborted" /\ error' = "ValueError"
            /\ UNCHANGED yielded
       ELSE /\ yielded' = Append(yielded, <<novec_result, vec_result>>)
            /\ main_pc' = "body"
            /\ UNCHANGED error
    /\ UNCHANGED <<inputVars, runnerVars, novec_result, vec_result, received,
                   reportVars>>

YieldOrBreak ==
    /\ main_pc = "test"
    /\ IF IsEnd(novec_result)
       THEN /\ main_pc' = "join_novec"
            /\ UNCHANGED yielded
       ELSE /\ yielded' = Append(yielded, <<novec_result, vec_result>>)
            /\ main_pc' = "body"
    /\ UNCHANGED <<inputVars, runnerVars, novec_result, vec_result, received,
                   reportVars, error>>

\* novec_thread.join()
JoinNovec ==
    /\ main_pc = "join_novec"
    /\ Exited("novec")
    /\ main_pc' = "join_vec"
    /\ UNCHANGED <<inputVars, runnerVars, novec_result, vec_result, received,
                   yielded, reportVars, error>>

\* vec_thread.join(); the generator then signals end-of-sequence.
JoinVec ==
    /\ main_pc = "join_vec"
    /\ Exited("vec")
    /\ main_pc' = "write"
    /\ UNCHANGED <<inputVars, runnerVars, novec_result, vec_result, received,
                   yielded, reportVars, error>>

\* ---------------------------------------------------------- Report Synthesizer

\* Mutant: the alignment assertion is not enforced.
SameFunction_Mut(novec, vec) == TRUE

\* The assert of line 210 on two records.
SameFunction(novec, vec) == novec.function_name = vec.function_name

\* Mutant: the upper threshold excludes its boundary.
SpeedupMarker_Mut(novec_duration, vec_duration) ==
    IF novec_duration < vec_duration THEN "RED"
    ELSE IF novec_duration > 4 * vec_duration THEN "CYAN"
    ELSE "PLAIN"

\* The colour chosen at lines 227-230, speedup = novec / vec with vec > 0:
\* speedup < 1 iff novec < vec, speedup >= 4 iff novec >= 4 * vec.
SpeedupMarker(novec_duration, vec_duration) ==
    IF novec_duration < vec_duration THEN "RED"
    ELSE IF novec_duration >= 4 * vec_duration THEN "CYAN"
    ELSE "PLAIN"

\* float / float raises ZeroDivisionError exactly when the divisor is zero.
DivisionRaises(vec_duration) == vec_duration = 0

ReportRow(novec, vec, status) ==
    <<novec.function_name, novec.checksum = vec.checksum,
      Lookup(status, novec.function_name), novec.duration, vec.duration>>

\* The body of the reporting loop for the pair just yielded (lines 210-241).
\* vec_result.function_name on the terminal marker raises AttributeError.
Body ==
    /\ main_pc = "body"
    /\ LET pair == yielded[Len(yielded)]
           novec == pair[1]
           vec == pair[2]
       IN  IF vec = NoneVal
           THEN /\ main_pc' = "aborted"
                /\ error' = "AttributeError"
                /\ UNCHANGED reportVars
           ELSE IF ~SameFunction(novec, vec)
           THEN /\ main_pc' = "aborted"
                /\ error' = "AssertionError"
                /\ UNCHANGED reportVars
           ELSE LET function_name == novec.function_name
                    checksum_match == novec.checksum = vec.checksum
                    vectorized == Lookup(vectorization_status, function_name)
                    printed == <<function_name,
                                 IF checksum_match THEN "OK" ELSE "MISMATCH",
                                 IF vectorized THEN "AUTOVEC" ELSE "NOVEC">>
                IN  /\ vectorization_status' = Touch(vectorization_status, function_name)
                    /\ IF DivisionRaises(vec.duration)
                       THEN /\ main_pc' = "aborted"
                            /\ error' = "ZeroDivisionError"
                            /\ console' = Append(console, printed)
                            /\ UNCHANGED report_items
                       ELSE /\ console' = Append(console,
                                 Append(printed, SpeedupMarker(novec.duration, vec.duration)))
                            /\ report_items' = Append(report_items,
                                 ReportRow(novec, vec, vectorization_status'))
                            /\ main_pc' = "get_novec"
                            /\ UNCHANGED error
                    /\ UNCHANGED report_file
    /\ UNCHANGED <<inputVars, runnerVars, novec_result, vec_result, received, yielded>>

\* Mutant: the report is also written when the loop was left by an exception
\* (as a "finally" clause around the loop would do).
WriteReport_Mut ==
    /\ main_pc \in {"write", "aborted"}
    /\ report_file = NoFile
    /\ report_file' = [exists |-> TRUE, rows |-> report_items]
    /\ main_pc' = IF main_pc = "write" THEN "done" ELSE main_pc
    /\ UNCHANGED <<inputVars, runnerVars, novec_result, vec_result, received,
                   yielded, vectorization_status, report_items, console, error>>

\* Lines 243-246: reached only when the loop ended without an exception.
WriteReport ==
    /\ main_pc = "write"
    /\ report_file' = [exists |-> TRUE, rows |-> report_items]
    /\ main_pc' = "done"
    /\ UNCHANGED <<inputVars, runnerVars, novec_result, vec_result, received,
                   yielded, vectorization_status, report_items, console, error>>

\* ------------------------------------------------------------ specification

InitState ==
    /\ runner_pc = [r \in Runners |-> "notstarted"]
    /\ line_no = [r \in Runners |-> 0]
    /\ queue = [r \in Runners |-> <<>>]
    /\ sent = [r \in Runners |-> <<>>]
    /\ runner_error = [r \in Runners |-> "none"]
    /\ child = [r \in Runners |-> "notstarted"]
    /\ main_pc = "oracle"
    /\ novec_result = Unbound
    /\ vec_result = Unbound
    /\ received = [r \in Runners |-> 0]
    /\ yielded = <<>>
    /\ vectorization_status = EmptyStatus
    /\ report_items = <<>>
    /\ console = <<>>
    /\ report_file = NoFile
    /\ error = "none"

\* A failed Popen prints nothing.
LaunchInputs == {l \in [Runners -> BOOLEAN] : \A r \in Runners : ~l[r] => output[r] = <<>>}

Init ==
    /\ output \in [Runners -> Streams(PipelineLines, MaxLines)]
    /\ launch_ok \in LaunchInputs
    /\ oracle_in \in PipelineOracleInputs
    /\ InitState

Next ==
    \/ BuildVerdict
    \/ StartRunners
    \/ \E r \in Runners : Launch(r)
    \/ \E r \in Runners : ReadLine(r)
    \/ \E r \in Runners : PutMarker(r)
    \/ \E r \in Runners : OrphanReaped(r)
    \/ GetNovec
    \/ GetVec
    \/ YieldOrBreak
    \/ Body
    \/ JoinNovec
    \/ JoinVec
    \/ WriteReport

Spec == Init /\ [][Next]_vars

\* The runner specification: one stream is drawn from every shape of line,
\* the other program prints well-formed output.
PeerLines == {LineA, LineHeader}

RunnerInit ==
    /\ output \in UNION { { [p \in Runners |-> IF p = r THEN s ELSE q] :
                                s \in Streams(AllLines, MaxLines),
                                q \in Streams(PeerLines, MaxLines) } : r \in Runners }
    /\ launch_ok \in LaunchInputs
    /\ oracle_in \in PipelineOracleInputs
    /\ InitState

RunnerSpec == RunnerInit /\ [][Next]_vars

\* Each process is scheduled by the operating system and keeps running while
\* it can take a step.
MainNext ==
    \/ BuildVerdict \/ StartRunners \/ GetNovec \/ GetVec \/ YieldOrBreak
    \/ Body \/ JoinNovec \/ JoinVec \/ WriteReport

RunnerNext(r) == Launch(r) \/ ReadLine(r) \/ PutMarker(r)

Fairness == WF_vars(MainNext) /\ \A r \in Runners : WF_vars(RunnerNext(r))

\* The termination specification draws the streams from fewer lines.
LiveLines == {LineA, LineB, LineHeader, LineShort}

LiveInit ==
    /\ output \in [Runners -> Streams(LiveLines, MaxLines)]
    /\ launch_ok \in LaunchInputs
    /\ oracle_in \in PipelineOracleInputs
    /\ InitState

FairSpec == LiveInit /\ [][Next]_vars /\ Fairness

\* The speedup specification: records of one function whose durations give
\* every speedup class and both thresholds.
SpeedupLines == {LineA, LineD4, LineD8, LineZero}

SpeedupInit ==
    /\ output \in [Runners -> Streams(SpeedupLines, MaxLines)]
    /\ launch_ok \in LaunchInputs
    /\ oracle_in \in PipelineOracleInputs
    /\ InitState

SpeedupSpec == SpeedupInit /\ [][Next]_vars

\* The oracle specification: every optimization record and symbol table
\* within the bound, and two programs that both report f and then g.
OracleInit ==
    /\ output = [r \in Runners |-> <<LineA, LineB>>]
    /\ launch_ok = [r \in Runners |-> TRUE]
    /\ oracle_in \in OracleInputs
    /\ InitState

OracleSpec == OracleInit /\ [][Next]_vars

\* ------------------------------------------------------------------ claims

IsRecord(item) == item # NoneVal

\* The records a runner has put, in the order it put them.
RecordsSent(r) == SelectSeq(sent[r], IsRecord)

\* The lines a runner has read so far.
LinesRead(r) == SubSeq(output[r], 1, line_no[r])

\* A yielded pair of two records.
Aligned(pair) ==
    /\ IsRecord(pair[2])
    /\ pair[1].function_name = pair[2].function_name

Misaligned(pair) ==
    /\ IsRecord(pair[2])
    /\ pair[1].function_name # pair[2].function_name

\* The pairing loop waits on a queue that is empty and whose runner is gone.
Hung ==
    \/ main_pc = "get_novec" /\ queue["novec"] = <<>> /\ Exited("novec")
    \/ main_pc = "get_vec" /\ queue["vec"] = <<>> /\ Exited("vec")

\* C1: the k-th pair yielded is (k-th record put by the scalar runner, k-th
\* record put by the vector runner), in every interleaving.
C1_PairsInOrder ==
    \A k \in 1..Len(yielded) :
        /\ k <= Len(RecordsSent("novec"))
        /\ k <= Len(RecordsSent("vec"))
        /\ yielded[k] = <<RecordsSent("novec")[k], RecordsSent("vec")[k]>>

\* C2: a pair whose function names differ aborts the run at that pair: it is
\* the last pair ever yielded, no row is appended for it or after it, nothing
\* more is received from either queue, and every row appended comes from a
\* pair with equal function names.
C2_MismatchAborts ==
    /\ \A k \in 1..Len(yielded) :
          Misaligned(yielded[k]) =>
              /\ k = Len(yielded)
              /\ Len(report_items) = k - 1
              /\ received = [r \in Runners |-> k]
              /\ main_pc \in {"body", "aborted"}
              /\ main_pc = "aborted" => error = "AssertionError"
    /\ Len(report_items) <= Len(yielded)
    /\ \A k \in 1..Len(report_items) :
          /\ Aligned(yielded[k])
          /\ report_items[k][1] = yielded[k][1].function_name

\* C2 witness: the run has aborted on a mismatch while a further record of
\* each program is waiting in its queue.
C2_Witness ==
    /\ main_pc = "aborted"
    /\ error = "AssertionError"
    /\ \A r \in Runners : queue[r] # <<>> /\ IsRecord(Head(queue[r]))

\* C3: the report file is written only after the paired sequence is
\* exhausted, then holds one row per pair yielded in the order processed; a
\* run that aborts never opens it.
C3_ReportOnlyWhenComplete ==
    /\ main_pc = "aborted" => report_file = NoFile
    /\ main_pc # "done" => report_file = NoFile
    /\ report_file.exists =>
          /\ main_pc = "done"
          /\ IsEnd(novec_result)
          /\ error = "none"
          /\ Len(report_file.rows) = Len(yielded)
          /\ \A k \in 1..Len(yielded) :
                /\ Aligned(yielded[k])
                /\ report_file.rows[k] =
                      << yielded[k][1].function_name,
                         yielded[k][1].checksum = yielded[k][2].checksum,
                         Lookup(vectorization_status, yielded[k][1].function_name),
                         yielded[k][1].duration,
                         yielded[k][2].duration >>

\* C3 witness: a report of two different rows has been written.
C3_Witness ==
    /\ report_file.exists
    /\ Len(report_file.rows) = 2
    /\ report_file.rows[1] # report_file.rows[2]

\* C4: every execution of run_benchmark puts exactly one terminal marker,
\* after every record, and nothing after it: a runner that has ended has put
\* the marker as its last item, and the marker is never followed by anything.
C4_OneMarkerLast ==
    \A r \in Runners :
        /\ \A i \in 1..Len(sent[r]) : sent[r][i] = NoneVal => i = Len(sent[r])
        /\ (Exited(r) /\ runner_error[r] # "OSError") =>
              /\ sent[r] # <<>>
              /\ sent[r][Len(sent[r])] = NoneVal

\* The runner ended on a non-empty line that does not parse.
CrashedOnMalformedLine(r) ==
    /\ runner_pc[r] = "crashed"
    /\ runner_error[r] \in {"IndexError", "ValueError"}
    /\ Split(output[r][line_no[r]]) # <<>>

\* C5: after a non-header line that cannot be parsed, the run neither hangs
\* on a queue nor completes with a report.
C5_ParseErrorAborts ==
    (\E r \in Runners : CrashedOnMalformedLine(r)) =>
        /\ ~Hung
        /\ main_pc \notin {"write", "done"}

\* The output format of a benchmark program: header lines, and lines of
\* exactly three fields whose second is a number.
WellFormedLine(line) ==
    \/ StartsWithLoop(line)
    \/ Len(Split(line)) = 3 /\ Split(line)[2] \in DOMAIN FloatOf

IsDataLine(line) == ~StartsWithLoop(line)

\* Both programs start, print well-formed output and as many records.
WellFormedEqualOutputs ==
    /\ \A r \in Runners :
          /\ launch_ok[r]
          /\ \A i \in 1..Len(output[r]) : WellFormedLine(output[r][i])
    /\ Len(SelectSeq(output["novec"], IsDataLine)) = Len(SelectSeq(output["vec"], IsDataLine))

\* run_benchmarks has signalled end-of-sequence.
SequenceEnded == main_pc \in {"write", "done"}

Discardable(line) == StartsWithLoop(line) \/ Split(line) = <<>>

NotDiscardable(line) == ~Discardable(line)

C8_ExactlyThreeFields ==
    \A r \in Runners :
        /\ \A i \in 1..line_no[r] :
              (~StartsWithLoop(output[r][i]) /\ Len(Split(output[r][i])) # 3) =>
                  (i = line_no[r] /\ runner_pc[r] = "crashed")
        /\ Len(RecordsSent(r)) =
              Cardinality({i \in 1..line_no[r] :
                  /\ ~StartsWithLoop(output[r][i])
                  /\ Len(Split(output[r][i])) = 3
                  /\ from_output_line(output[r][i]).ok})

\* C9: header lines and empty lines are discarded without error, and the
\* records put are those of the remaining lines, in order.
C9_DiscardsHeaderAndEmpty ==
    \A r \in Runners :
        LET remaining == SelectSeq(LinesRead(r), NotDiscardable) IN
        (\A i \in 1..Len(remaining) : from_output_line(remaining[i]).ok) =>
            /\ runner_error[r] \notin {"IndexError", "ValueError"}
            /\ RecordsSent(r) = [i \in 1..Len(remaining) |-> from_output_line(remaining[i]).rec]

\* C10: a pair whose vector duration is zero does not abort the run: once it
\* has been processed its row is in the buffer.
C10_ZeroVectorDuration ==
    /\ error # "ZeroDivisionError"
    /\ \A k \in 1..Len(yielded) :
          ( /\ Aligned(yielded[k])
            /\ yielded[k][2].duration = 0
            /\ (k < Len(yielded) \/ main_pc # "body") ) =>
              Len(report_items) >= k

\* The k-th pair yielded has been through the body of the reporting loop.
Processed(k) == k < Len(yielded) \/ main_pc # "body"

\* C11: for every pair with a positive vector duration the marker is the
\* regression marker exactly when scalar < vector, the exceptional marker
\* exactly when scalar >= 4 * vector, and neutral otherwise.
C11_ThresholdExact ==
    /\ Len(console) <= Len(yielded)
    /\ \A k \in 1..Len(yielded) :
          LET s == yielded[k][1].duration
              v == yielded[k][2].duration
          IN  (Aligned(yielded[k]) /\ v > 0 /\ Processed(k)) =>
                  /\ Len(console) >= k
                  /\ Len(console[k]) = 4
                  /\ console[k][4] \in {"RED", "CYAN", "PLAIN"}
                  /\ console[k][4] = "RED" <=> s < v
                  /\ console[k][4] = "CYAN" <=> s >= 4 * v
                  /\ console[k][4] = "PLAIN" <=> (s >= v /\ s < 4 * v)

\* C11 witness: a pair of speedup exactly 4 was marked exceptional and a pair
\* of speedup exactly 1 was left neutral.
C11_Witness ==
    /\ \E k \in 1..Len(console) :
          /\ Len(console[k]) = 4 /\ console[k][4] = "CYAN"
          /\ yielded[k][1].duration = 4 * yielded[k][2].duration
    /\ \E k \in 1..Len(console) :
          /\ Len(console[k]) = 4 /\ console[k][4] = "PLAIN"
          /\ yielded[k][1].duration = yielded[k][2].duration

FunctionNames == {"f", "g", "h"}

\* The verdict map has been built from an optimization record.
BuiltFromRecord ==
    /\ oracle_in.mode = "record"
    /\ oracle_in.yaml_ok
    /\ main_pc # "oracle"

\* The first i entries of the record.
EntryPrefix(i) == SubSeq(oracle_in.entries, 1, i)

\* The entries of the record in the order p.
Reordered(p) == [i \in 1..Len(oracle_in.entries) |-> oracle_in.entries[p[i]]]

\* C12: while the entries are processed in sequence a verdict that has become
\* true stays true, whatever entries follow, up to the map the reporting loop
\* reads; and the verdicts do not depend on the order of the entries.
C12_OrAccumulation ==
    BuiltFromRecord =>
        LET n == Len(oracle_in.entries) IN
        /\ \A i \in 0..n : \A j \in i..n : \A fn \in FunctionNames :
              Lookup(vectorization_status_from_record(EntryPrefix(i)), fn)
                  => Lookup(vectorization_status_from_record(EntryPrefix(j)), fn)
        /\ \A i \in 0..n : \A fn \in FunctionNames :
              Lookup(vectorization_status_from_record(EntryPrefix(i)), fn)
                  => Lookup(vectorization_status, fn)
        /\ \A p \in Permutations(1..n) : \A fn \in FunctionNames :
              Lookup(vectorization_status_from_record(Reordered(p)), fn)
                  = Lookup(vectorization_status, fn)

\* C12 witness: the record is a success of f followed by a miss of f, and the
\* row of f has been reported as vectorized.
C12_Witness ==
    /\ BuiltFromRecord
    /\ oracle_in.entries = << Entry("f", "loop-vectorize", "Vectorized"),
                              Entry("f", "loop-vectorize", "MissedDetails") >>
    /\ Len(report_items) >= 1
    /\ report_items[1][1] = "f"
    /\ report_items[1][3] = TRUE

\* An entry of a recognized vectorization pass reports success for fn.
ReportsSuccess(entry, fn) ==
    /\ "Function" \in DOMAIN entry /\ entry.Function = fn
    /\ "Pass" \in DOMAIN entry /\ entry.Pass \in {"loop-vectorize", "slp-vectorize"}
    /\ "Name" \in DOMAIN entry /\ entry.Name = "Vectorized"

NoSuccess(fn) ==
    \A i \in 1..Len(oracle_in.entries) : ~ReportsSuccess(oracle_in.entries[i], fn)

\* C13: a function for which no entry of a recognized vectorization pass
\* reported success has verdict false in the map, in every row and on the
\* console; an entry without a Function key changes no verdict.
C13_DefaultFalse ==
    BuiltFromRecord =>
        /\ \A fn \in FunctionNames :
              NoSuccess(fn) =>
                  /\ Lookup(vectorization_status, fn) = FALSE
                  /\ \A k \in 1..Len(report_items) :
                        report_items[k][1] = fn => report_items[k][3] = FALSE
                  /\ \A k \in 1..Len(console) :
                        console[k][1] = fn => console[k][3] = "NOVEC"
        /\ \A i \in 1..Len(oracle_in.entries) :
              "Function" \notin DOMAIN oracle_in.entries[i] =>
                  vectorization_status_from_record(EntryPrefix(i))
                      = vectorization_status_from_record(EntryPrefix(i - 1))

\* C13 witness: the record holds a remark of another pass for f and an entry
\* without a Function key, g is not mentioned, and both rows say not vectorized.
C13_Witness ==
    /\ BuiltFromRecord
    /\ main_pc = "done"
    /\ oracle_in.entries = << Entry("f", "licm", "Vectorized"),
                              [Pass |-> "loop-vectorize", Name |-> "Vectorized"] >>
    /\ Len(report_items) = 2
    /\ report_items[1][1] = "f" /\ report_items[1][3] = FALSE
    /\ report_items[2][1] = "g" /\ report_items[2][3] = FALSE

\* C14: the row's checksum_match flag is true exactly when the two checksums
\* are identical, and a pair whose checksums differ still gets its row, with
\* the flag false, whatever its durations.
C14_ChecksumMismatchReported ==
    /\ \A k \in 1..Len(report_items) :
          report_items[k][2] = (yielded[k][1].checksum = yielded[k][2].checksum)
    /\ \A k \in 1..Len(yielded) :
          ( /\ Aligned(yielded[k])
            /\ yielded[k][1].checksum # yielded[k][2].checksum
            /\ Processed(k) ) =>
              /\ Len(report_items) >= k
              /\ report_items[k][2] = FALSE

\* C15: once built, the verdict map keeps its keys and its values: it is the
\* map the construction returned.
C15_MapReadOnly ==
    (main_pc # "oracle" /\ BuildStatus(oracle_in).ok) =>
        /\ DOMAIN vectorization_status = DOMAIN BuildStatus(oracle_in).status
        /\ vectorization_status = BuildStatus(oracle_in).status

\* C16: when run_benchmarks signals end-of-sequence, every benchmark program
\* that was started has terminated and has been waited for.
C16_ChildrenReaped ==
    SequenceEnded => \A r \in Runners : child[r] \in {"notstarted", "reaped"}

\* The named symbols of the binary, and whether the scan of the binary fails:
\* the architecture, the symbol table, objdump on a named symbol.
NamedSymbols(in) == {i \in 1..Len(in.symbols) : in.symbols[i].name # ""}

ScanFails(in) ==
    \/ in.arch # "RISC-V"
    \/ ~in.has_symtab
    \/ \E i \in NamedSymbols(in) : in.symbols[i].objdump = "fail"

ConstructionFails(in) ==
    IF in.mode = "record" THEN ~in.yaml_ok ELSE ScanFails(in)

Started(r) == runner_pc[r] # "notstarted" \/ child[r] # "notstarted"

\* C17: a runner or a benchmark program is started only after the verdict map
\* has been built; when the construction fails the run aborts with that
\* failure, no runner or program is ever started and no report is written.
C17_BuildBeforeRun ==
    /\ (\E r \in Runners : Started(r)) =>
          /\ main_pc # "oracle"
          /\ ~ConstructionFails(oracle_in)
    /\ (main_pc = "oracle" \/ ConstructionFails(oracle_in)) =>
          /\ \A r \in Runners : ~Started(r) /\ sent[r] = <<>>
          /\ yielded = <<>>
          /\ report_items = <<>>
          /\ report_file = NoFile
    /\ (main_pc # "oracle" /\ ConstructionFails(oracle_in)) =>
          /\ main_pc = "aborted"
          /\ error \in {"ValueError", "AssertionError", "CalledProcessError",
                        "YAMLError"}

\* C17 witness: the vector binary is not a RISC-V binary; the run has aborted
\* with no runner started.
C17_Witness ==
    /\ oracle_in.mode = "binary"
    /\ oracle_in.arch = "x86"
    /\ main_pc = "aborted"
    /\ error = "ValueError"
    /\ \A r \in Runners : runner_pc[r] = "notstarted"

\* The verdict the scan gives a name: that of the last symbol of that name.
LastVerdict(in, name) ==
    \E i \in NamedSymbols(in) :
        /\ in.symbols[i].name = name
        /\ in.symbols[i].objdump = "vsetvli"
        /\ \A j \in NamedSymbols(in) : j > i => in.symbols[j].name # name

\* C18: scanning the binary either gives a map with a verdict for every named
\* symbol (and, when it is returned, for nothing else), or, when the
\* architecture is not RISC-V, the symbol table is missing or objdump fails
\* on a named symbol, raises and leaves no map, whatever was scanned before.
C18_NoPartialVerdict ==
    (oracle_in.mode = "binary" /\ main_pc # "oracle") =>
        IF ScanFails(oracle_in)
        THEN /\ main_pc = "aborted"
             /\ vectorization_status = EmptyStatus
             /\ error = IF oracle_in.arch # "RISC-V" THEN "ValueError"
                        ELSE IF ~oracle_in.has_symtab THEN "AssertionError"
                        ELSE "CalledProcessError"
        ELSE /\ \A i \in NamedSymbols(oracle_in) :
                   oracle_in.symbols[i].name \in DOMAIN vectorization_status
             /\ \A k \in DOMAIN vectorization_status :
                   vectorization_status[k] = LastVerdict(oracle_in, k)
             /\ main_pc = "start" =>
                   DOMAIN vectorization_status =
                       {oracle_in.symbols[i].name : i \in NamedSymbols(oracle_in)}

\* C18 witness: objdump succeeded on the first named symbol and failed on the
\* second; the run has aborted and there is no map.
C18_Witness ==
    /\ oracle_in.mode = "binary"
    /\ oracle_in.arch = "RISC-V" /\ oracle_in.has_symtab
    /\ oracle_in.symbols = <<Symbol("f", "vsetvli"), Symbol("g", "fail")>>
    /\ main_pc = "aborted"
    /\ error = "CalledProcessError"
    /\ vectorization_status = EmptyStatus

\* C19: both elements of every yielded pair are records; the terminal marker
\* of the vector runner is never the vector element of a pair.
C19_PairsOfRecords ==
    \A k \in 1..Len(yielded) :
        IsRecord(yielded[k][1]) /\ IsRecord(yielded[k][2])

\* The loop has received the scalar marker together with a vector record.
ScalarEndedFirst ==
    /\ main_pc \in {"test", "join_novec", "join_vec", "write", "done", "aborted"}
    /\ IsEnd(novec_result)
    /\ IsRecord(vec_result)

\* C20: when the scalar marker is received together with a vector record,
\* the loop ends without an error; the pairs are the scalar records with the
\* vector records of the same positions, as many as there are scalar records;
\* the vector record received last and every later one are in no pair and in
\* no row.
C20_SurplusVectorDropped ==
    ScalarEndedFirst =>
        /\ main_pc # "aborted" /\ error = "none"
        /\ Len(yielded) = Len(RecordsSent("novec"))
        /\ Len(yielded) = Len(SelectSeq(output["novec"], IsDataLine))
        /\ Len(RecordsSent("vec")) > Len(yielded)
        /\ vec_result = RecordsSent("vec")[Len(yielded) + 1]
        /\ \A k \in 1..Len(yielded) :
              yielded[k] = <<RecordsSent("novec")[k], RecordsSent("vec")[k]>>
        /\ Len(report_items) = Len(yielded)
        /\ main_pc = "done" => Len(report_file.rows) = Len(yielded)

\* C20 witness: the scalar program printed one record and the vector program
\* two; the run is done with one pair and one row.
C20_Witness ==
    /\ main_pc = "done"
    /\ ScalarEndedFirst
    /\ Len(RecordsSent("novec")) = 1
    /\ Len(RecordsSent("vec")) = 2
    /\ Len(yielded) = 1
    /\ Len(report_file.rows) = 1
    /\ error = "none"

====
